---------------------------- MODULE Spec2Model ----------------------------
(***************************************************************************)
(* State-machine model of the Swiftcomplete checkout widget:               *)
(*   - the suggestion search controller of Swiftcomplete.tsx (signals,     *)
(*     the debounced search effect, the selection handler and the UI       *)
(*     event handlers),                                                    *)
(*   - the highlight renderer of HighlightedText.tsx (a pure function),    *)
(*   - the search effect of the Checkout.tsx iteration of the controller   *)
(*     (useState, debounceRef and abortRef with useEffect).                *)
(* Strings are modelled as sequences of one-character strings.             *)
(***************************************************************************)
EXTENDS Integers, Sequences, FiniteSets, TLC

VARIABLES
    \* ---- Swiftcomplete.tsx: signals and refs of the component
    inputValue,      \* useSignal('')
    suggestions,     \* useSignal<Location[]>([])
    isSearching,     \* useSignal(false)
    statusBanner,    \* useSignal<BannerState | null>(null)
    selectionState,  \* useSignal<SelectionState>
    panelOpen,       \* useSignal(false)
    abortRef,        \* useRef<AbortController | null>: 0 = null, else controller id
    \* ---- the search effect's closures and what the host holds for them
    mounted,         \* the component is rendered (effect not yet torn down)
    curEff,          \* id of the latest run of the search effect
    disposed,        \* ids of the effect runs whose `disposed` flag is true
    timers,          \* pending setTimeout callbacks: [eff, q]
    fetches,         \* primary lookup fetches not yet settled: [eff, q, stage]
    aborted,         \* ids of the AbortControllers whose signal is aborted
    \* ---- handleSelectSuggestion: requests awaiting completion
    applyAvailable,  \* useApplyShippingAddressChange() returned a function
    cfetches,        \* container-expansion fetches in flight: seq of [place, stage]
    applies,         \* apply-address calls in flight: seq of [place, key, address]
    \* ---- HighlightedText.tsx: props and the computed output
    text,            \* prop text
    highlights,      \* prop highlights (flat list of offsets)
    fallbackQuery,   \* prop fallbackQuery
    rendered,        \* FALSE until the component function has run
    segments,        \* the segments array after line 55
    display,         \* the displayValue of every segment, in order
    \* ---- Checkout.tsx: the ref that only that iteration has
    debounceRef      \* useRef<number | null>: 0 = null, else the timer handle

ctlVars == <<inputValue, suggestions, isSearching, statusBanner, selectionState,
             panelOpen, abortRef, mounted, curEff, disposed, timers, fetches,
             aborted, applyAvailable, cfetches, applies>>
hlVars == <<text, highlights, fallbackQuery, rendered, segments, display>>
coVars == <<debounceRef>>
vars == <<ctlVars, hlVars, coVars>>

-----------------------------------------------------------------------------
(* Bounds of the model *)

\* number of runs of the search effect (the mount run included)
MaxEffectRuns == 4
\* number of selection requests (container fetches + apply calls) in flight
MaxInFlight == 2

-----------------------------------------------------------------------------
(* Strings *)

SP == " "
COMMA == ","
NBSP == "nbsp"

Min(a, b) == IF a < b THEN a ELSE b
Max(a, b) == IF a > b THEN a ELSE b

RECURSIVE TrimStart(_)
TrimStart(s) ==
    IF s # <<>> /\ Head(s) = SP THEN TrimStart(Tail(s)) ELSE s

RECURSIVE TrimEnd(_)
TrimEnd(s) ==
    IF s # <<>> /\ s[Len(s)] = SP THEN TrimEnd(SubSeq(s, 1, Len(s) - 1)) ELSE s

\* String.prototype.trim over the model's alphabet (SP is its only white space)
Trim(s) == TrimEnd(TrimStart(s))


\* the first index of c in s, 0 when c does not occur
IndexOfChar(s, c) ==
    IF \E i \in 1..Len(s) : s[i] = c
    THEN CHOOSE i \in 1..Len(s) : s[i] = c /\ \A j \in 1..(i - 1) : s[j] # c
    ELSE 0

\* String.prototype.split(','): the segments between the commas, in order
RECURSIVE SplitComma(_)
SplitComma(s) ==
    LET i == IndexOfChar(s, COMMA)
    IN IF i = 0 THEN <<s>>
       ELSE <<SubSeq(s, 1, i - 1)>> \o SplitComma(SubSeq(s, i + 1, Len(s)))

\* parts.map((part) => part.trim())
MapTrim(parts) == [i \in 1..Len(parts) |-> Trim(parts[i])]

\* mutant: no part is discarded
KeepEveryPart(parts) == parts

\* parts.filter(Boolean): the non-empty strings, in order
RECURSIVE FilterNonEmpty(_)
FilterNonEmpty(parts) ==
    IF parts = <<>> THEN <<>>
    ELSE IF Head(parts) = <<>> THEN FilterNonEmpty(Tail(parts))
         ELSE <<Head(parts)>> \o FilterNonEmpty(Tail(parts))

\* parts.join(', ')
RECURSIVE JoinCommaSpace(_)
JoinCommaSpace(parts) ==
    IF parts = <<>> THEN <<>>
    ELSE IF Len(parts) = 1 THEN parts[1]
         ELSE parts[1] \o <<COMMA, SP>> \o JoinCommaSpace(Tail(parts))

-----------------------------------------------------------------------------
(* Configuration and data of the controller *)

MIN_QUERY_LENGTH == 3

\* the value `undefined` of an optional string
Undefined == <<"undefined">>

TypeSubbuilding == "address.residential.subbuilding.name"
TypeBusiness == "address.business"
TypeOther == "address.residential.building.number"
TypeAbsent == "undefined"

\* createSelectionState(): { status: 'idle', key: null }; the null key is <<>>
createSelectionState == [status |-> "idle", key |-> <<>>]

\* BannerState: null, or { tone, message }
NoBanner == [tone |-> "none", message |-> "none"]
MsgFetchFailed == "We couldn't fetch address suggestions. Try again shortly."
MsgUnavailable == "Address updates are not available right now."
MsgContainerEmpty == "We couldn't find addresses for that location. Try another suggestion."
MsgContainerFailed == "We couldn't expand that result. Please try a different option."
MsgApplied == "Address applied to the checkout."
MsgApplyFailed == "Something went wrong while applying the address. Please try again."

\* showBanner(tone, message)
showBanner(tone, message) == [tone |-> tone, message |-> message]

\* getLocationKey: `${primary.text}-${secondary.text}`
getLocationKey(place) == place.primary \o <<"-">> \o place.secondary

\* mutant: the text parameter is never set
buildLookupUrlNoText(maxResults, query, container) ==
    [maxResults |-> maxResults, text |-> Undefined,
     container |-> IF container # <<>> THEN container ELSE Undefined]

\* mutant: both parameters are set on every request, whatever they hold
buildLookupUrlBoth(maxResults, query, container) ==
    [maxResults |-> maxResults, text |-> query, container |-> container]

\* buildLookupUrl: the query parameters that vary per call
buildLookupUrl(maxResults, query, container) ==
    [maxResults |-> maxResults,
     text |-> IF query # <<>> THEN query ELSE Undefined,
     container |-> IF container # <<>> THEN container ELSE Undefined]

isSubbuildingLocation(type) == type = TypeSubbuilding

\* mutant: no type is taken for the business classification
isNeverBusiness(type) == FALSE

isBusinessLocation(type) == type = TypeBusiness

\* mutant: address1 is the trimmed primary.text even when that is empty
TrimmedAddress1(primaryText) == Trim(primaryText)

\* let address1 = primaryText?.trim(); if (!address1) address1 = primaryText
DefaultAddress1(primaryText) ==
    IF Trim(primaryText) # <<>> THEN Trim(primaryText) ELSE primaryText

\* mutant: the leading segment is not trimmed and the remainder is dropped
splitWithoutRemainder(t) ==
    IF t = <<>> THEN <<Undefined, Undefined>>
    ELSE <<IF Head(SplitComma(t)) # <<>> THEN Head(SplitComma(t)) ELSE Undefined,
           Undefined>>

\* splitPrimaryTextSegments(text): [leading || undefined, remainder || undefined]
splitPrimaryTextSegments(t) ==
    IF t = <<>> THEN <<Undefined, Undefined>>
    ELSE LET parts == SplitComma(t)
             leading == Trim(Head(parts))
             remainder == JoinCommaSpace(FilterNonEmpty(MapTrim(Tail(parts))))
         IN <<IF leading # <<>> THEN leading ELSE Undefined,
              IF remainder # <<>> THEN remainder ELSE Undefined>>

\* handleSelectSuggestion, direct-apply branch: the address handed to the
\* apply-address collaborator
DeriveAddress(place) ==
    LET primaryText == place.primary
        address1 == DefaultAddress1(primaryText)
        split == splitPrimaryTextSegments(primaryText)
        isSub == isSubbuildingLocation(place.type)
        isBus == ~isSub /\ isBusinessLocation(place.type)
        parts == FilterNonEmpty(MapTrim(SplitComma(place.secondary)))
    IN [address1 |-> IF (isSub \/ isBus) /\ split[2] # Undefined
                     THEN split[2] ELSE address1,
        address2 |-> IF isSub THEN split[1] ELSE Undefined,
        company |-> IF isBus THEN split[1] ELSE Undefined,
        city |-> IF Len(parts) >= 1 THEN parts[1] ELSE <<>>,
        zip |-> IF Len(parts) >= 2 THEN parts[2] ELSE <<>>,
        countryCode |-> place.countryCode]

MkLocation(type, isContainer, container, primary, secondary) ==
    [type |-> type, isContainer |-> isContainer, container |-> container,
     primary |-> primary, secondary |-> secondary, countryCode |-> "GB"]

\* Locations the lookup service returns to the controller
LocContainer == MkLocation(TypeOther, TRUE, <<"k">>, <<"m">>, <<"c">>)
LocFlat == MkLocation(TypeSubbuilding, FALSE, <<>>, <<"f", COMMA, "m">>, <<"c", COMMA, "z">>)
Locations == {LocContainer, LocFlat}

\* a response body longer than the maxResults the request asks for (the
\* service repeats a result)
SixResults == <<LocFlat, LocFlat, LocFlat, LocFlat, LocFlat, LocFlat>>

\* response bodies of the lookup service
ResultLists == {<<>>, <<LocContainer, LocFlat>>, SixResults}

\* values typed into the text field
Inputs == {<<>>, <<"a", "b", SP>>, <<"a", "b", "c">>, <<"a", "b", "c", SP>>}

-----------------------------------------------------------------------------
(* Swiftcomplete.tsx: the search effect *)

\* clearTimeout(timeoutId) in the cleanup of effect run e
ClearTimeout(e) == {t \in timers : t.eff # e}

\* mutant: the in-flight fetch is not aborted
AbortNothing == aborted

\* abortRef.current?.abort()
AbortCurrent == IF abortRef = 0 THEN aborted ELSE aborted \cup {abortRef}

\* mutant: the length check is made on the untrimmed value
IsShortUntrimmed(v) == Len(v) < MIN_QUERY_LENGTH

\* trimmedValue.length < MIN_QUERY_LENGTH
IsShortQuery(v) == Len(Trim(v)) < MIN_QUERY_LENGTH

\* The cleanup of the current effect run followed by the synchronous part of
\* the next run, for the new input value v: the values it leaves in the
\* signals, refs and closures it touches.
SearchEffect(v) ==
    LET e == curEff + 1
        short == IsShortQuery(v)
        kept == ClearTimeout(curEff)
    IN [curEff |-> e,
        disposed |-> disposed \cup {curEff},
        aborted |-> AbortCurrent,
        abortRef |-> 0,
        timers |-> IF short THEN kept
                   ELSE kept \cup {[eff |-> e, q |-> Trim(v)]},
        suggestions |-> IF short THEN <<>> ELSE suggestions,
        panelOpen |-> IF short THEN FALSE ELSE panelOpen,
        isSearching |-> ~short,
        selectionState |-> IF short THEN createSelectionState ELSE selectionState,
        statusBanner |-> IF short THEN statusBanner ELSE NoBanner]

\* Writes the closure state of an effect re-run (everything but the signals
\* that the calling handler writes again afterwards).
ApplyEffectRefs(r) ==
    /\ curEff' = r.curEff
    /\ disposed' = r.disposed
    /\ aborted' = r.aborted
    /\ abortRef' = r.abortRef
    /\ timers' = r.timers

\* mutant: handleInput forgets clearBanner()
ResetSelectionOnly ==
    /\ selectionState' = createSelectionState
    /\ UNCHANGED statusBanner

\* resetSelectionState(); clearBanner() at the end of handleInput
ResetAfterInput ==
    /\ selectionState' = createSelectionState
    /\ statusBanner' = NoBanner

\* handleInput: the signal write re-runs the search effect synchronously
\* when the value differs; then resetSelectionState() and clearBanner().
HandleInput(v) ==
    /\ mounted
    /\ IF v = inputValue
       THEN /\ UNCHANGED <<inputValue, suggestions, panelOpen, isSearching,
                           curEff, disposed, aborted, abortRef, timers>>
       ELSE /\ curEff < MaxEffectRuns
            /\ LET r == SearchEffect(v)
               IN /\ inputValue' = v
                  /\ ApplyEffectRefs(r)
                  /\ suggestions' = r.suggestions
                  /\ panelOpen' = r.panelOpen
                  /\ isSearching' = r.isSearching
    /\ ResetAfterInput
    /\ UNCHANGED <<mounted, fetches, applyAvailable, cfetches, applies, hlVars, coVars>>

\* mutant: handleClear forgets clearBanner()
ClearWithoutBanner ==
    /\ suggestions' = <<>>
    /\ panelOpen' = FALSE
    /\ selectionState' = createSelectionState
    /\ UNCHANGED statusBanner

\* the writes of handleClear after the one to inputValue
ClearWrites ==
    /\ suggestions' = <<>>
    /\ panelOpen' = FALSE
    /\ selectionState' = createSelectionState
    /\ statusBanner' = NoBanner

\* handleClear (the clear accessory is rendered when inputValue.length > 0)
HandleClear ==
    /\ mounted
    /\ Len(inputValue) > 0
    /\ curEff < MaxEffectRuns
    /\ LET r == SearchEffect(<<>>)
       IN /\ inputValue' = <<>>
          /\ ApplyEffectRefs(r)
          /\ isSearching' = r.isSearching
    /\ ClearWrites
    /\ UNCHANGED <<mounted, fetches, applyAvailable, cfetches, applies, hlVars, coVars>>

\* mutant: handleFocus opens the panel whatever the list holds
FocusAlwaysOpens == panelOpen' = TRUE

\* panelOpen.value = suggestions.value.length > 0
FocusPanel == panelOpen' = (Len(suggestions) > 0)

\* handleFocus
HandleFocus ==
    /\ mounted
    /\ FocusPanel
    /\ UNCHANGED <<inputValue, suggestions, isSearching, statusBanner,
                   selectionState, abortRef, mounted, curEff, disposed, timers,
                   fetches, aborted, applyAvailable, cfetches, applies, hlVars, coVars>>

\* "Hide suggestions": onClick={() => panelOpen.value = false}
HidePanel ==
    /\ mounted
    /\ panelOpen
    /\ panelOpen' = FALSE
    /\ UNCHANGED <<inputValue, suggestions, isSearching, statusBanner,
                   selectionState, abortRef, mounted, curEff, disposed, timers,
                   fetches, aborted, applyAvailable, cfetches, applies, hlVars, coVars>>

\* the banner's onDismiss={clearBanner}
DismissBanner ==
    /\ mounted
    /\ statusBanner # NoBanner
    /\ statusBanner' = NoBanner
    /\ UNCHANGED <<inputValue, suggestions, isSearching, panelOpen,
                   selectionState, abortRef, mounted, curEff, disposed, timers,
                   fetches, aborted, applyAvailable, cfetches, applies, hlVars, coVars>>

\* Teardown: the effect's cleanup runs when the component unmounts
Unmount ==
    /\ mounted
    /\ mounted' = FALSE
    /\ disposed' = disposed \cup {curEff}
    /\ timers' = ClearTimeout(curEff)
    /\ aborted' = AbortCurrent
    /\ abortRef' = 0
    /\ UNCHANGED <<inputValue, suggestions, isSearching, statusBanner,
                   selectionState, panelOpen, curEff, fetches, applyAvailable,
                   cfetches, applies, hlVars, coVars>>

\* The debounce timer fires: the setTimeout callback up to its first await
TimerFire(t) ==
    /\ t \in timers
    /\ timers' = timers \ {t}
    /\ IF t.eff \in disposed
       THEN UNCHANGED <<abortRef, fetches>>
       ELSE /\ abortRef' = t.eff
            /\ fetches' = fetches \cup
                 {[eff |-> t.eff, req |-> buildLookupUrl(5, t.q, <<>>),
                   stage |-> "fetch"]}
    /\ UNCHANGED <<inputValue, suggestions, isSearching, statusBanner,
                   selectionState, panelOpen, mounted, curEff, disposed,
                   aborted, applyAvailable, cfetches, applies, hlVars, coVars>>

\* mutant: the completion does not check for supersession
NeverSuperseded(f) == FALSE

\* disposed || controller.signal.aborted, for the fetch f
IsSuperseded(f) == f.eff \in disposed \/ f.eff \in aborted

\* mutant: the finally block never finds its own controller in abortRef
NeverCurrentController(f) == FALSE

\* mutant: the finally block does not look at disposed or abortRef
AnyController(f) == TRUE

\* finally: !disposed && abortRef.current === controller
IsCurrentController(f) == f.eff \notin disposed /\ abortRef = f.eff

\* the finally block of the timer callback
LookupFinally(f) ==
    IF IsCurrentController(f)
    THEN isSearching' = FALSE /\ abortRef' = 0
    ELSE UNCHANGED <<isSearching, abortRef>>

\* mutant: the list is cut to the five results asked for and the panel is
\* opened whatever the list holds
LookupSuccessTruncating(f, data) ==
    /\ IF IsSuperseded(f)
       THEN UNCHANGED <<suggestions, panelOpen>>
       ELSE /\ suggestions' = SubSeq(data, 1, Min(5, Len(data)))
            /\ panelOpen' = TRUE
    /\ UNCHANGED statusBanner
    /\ LookupFinally(f)

\* try block after both awaits resolved with the body `data`
LookupSuccess(f, data) ==
    /\ IF IsSuperseded(f)
       THEN UNCHANGED <<suggestions, panelOpen>>
       ELSE suggestions' = data /\ panelOpen' = (Len(data) > 0)
    /\ UNCHANGED statusBanner
    /\ LookupFinally(f)

\* catch block: a thrown `Lookup failed`, a network error, an AbortError or a
\* body that fails to parse
LookupFailure(f) ==
    /\ IF IsSuperseded(f)
       THEN UNCHANGED <<suggestions, panelOpen, statusBanner>>
       ELSE /\ suggestions' = <<>>
            /\ panelOpen' = FALSE
            /\ statusBanner' = showBanner("critical", MsgFetchFailed)
    /\ LookupFinally(f)

\* await fetch(...) resolves with a response: res.ok continues to res.json(),
\* otherwise the callback throws into its catch block
FetchResponds(f, ok) ==
    /\ f \in fetches
    /\ f.stage = "fetch"
    /\ IF ok
       THEN /\ fetches' = (fetches \ {f}) \cup {[f EXCEPT !.stage = "json"]}
            /\ UNCHANGED <<suggestions, panelOpen, statusBanner, isSearching,
                           abortRef>>
       ELSE /\ fetches' = fetches \ {f}
            /\ LookupFailure(f)
    /\ UNCHANGED <<inputValue, selectionState, mounted, curEff, disposed,
                   timers, aborted, applyAvailable, cfetches, applies, hlVars, coVars>>

\* await fetch(...) or await res.json() rejects
FetchRejects(f) ==
    /\ f \in fetches
    /\ fetches' = fetches \ {f}
    /\ LookupFailure(f)
    /\ UNCHANGED <<inputValue, selectionState, mounted, curEff, disposed,
                   timers, aborted, applyAvailable, cfetches, applies, hlVars, coVars>>

\* await res.json() resolves with the list `data`
FetchDelivers(f, data) ==
    /\ f \in fetches
    /\ f.stage = "json"
    /\ fetches' = fetches \ {f}
    /\ LookupSuccess(f, data)
    /\ UNCHANGED <<inputValue, selectionState, mounted, curEff, disposed,
                   timers, aborted, applyAvailable, cfetches, applies, hlVars, coVars>>

-----------------------------------------------------------------------------
(* Swiftcomplete.tsx: handleSelectSuggestion *)

\* mutant: the completion of one request drops every request in flight
RemoveEvery(s, i) == <<>>

\* s without its i-th element
RemoveAt(s, i) == SubSeq(s, 1, i - 1) \o SubSeq(s, i + 1, Len(s))

\* mutant: the branch is taken on isContainer alone
IsContainerFlagged(place) == place.isContainer

\* mutant: the container token alone is not looked at, the branch is inverted
IsNotContainerSelection(place) == ~(place.isContainer /\ place.container # <<>>)

\* place.isContainer && place.container
IsContainerSelection(place) == place.isContainer /\ place.container # <<>>

\* SuggestionList is rendered, with one clickable row per suggestion, when
\* the panel is open and no search is running
CanSelect(place) ==
    /\ mounted
    /\ panelOpen
    /\ ~isSearching
    /\ \E i \in 1..Len(suggestions) : suggestions[i] = place

\* handleSelectSuggestion up to its first await
HandleSelectSuggestion(place) ==
    /\ CanSelect(place)
    /\ IF ~applyAvailable
       THEN /\ statusBanner' = showBanner("critical", MsgUnavailable)
            /\ UNCHANGED <<selectionState, isSearching, cfetches, applies>>
       ELSE /\ Len(cfetches) + Len(applies) < MaxInFlight
            /\ selectionState' = [status |-> "pending", key |-> getLocationKey(place)]
            /\ UNCHANGED statusBanner
            /\ IF IsContainerSelection(place)
               THEN /\ isSearching' = TRUE
                    /\ cfetches' = Append(cfetches,
                         [place |-> place,
                          req |-> buildLookupUrl(100, <<>>, place.container),
                          stage |-> "fetch"])
                    /\ UNCHANGED applies
               ELSE /\ applies' = Append(applies,
                         [place |-> place,
                          key |-> getLocationKey(place),
                          address |-> DeriveAddress(place)])
                    /\ UNCHANGED <<isSearching, cfetches>>
    /\ UNCHANGED <<inputValue, suggestions, panelOpen, abortRef, mounted, curEff,
                   disposed, timers, fetches, aborted, applyAvailable, hlVars, coVars>>

\* mutant: the finally block of the container branch leaves the selection
ContainerFinallyKeepsSelection ==
    /\ isSearching' = FALSE
    /\ UNCHANGED selectionState

\* finally block of the container branch
ContainerFinally ==
    /\ isSearching' = FALSE
    /\ selectionState' = createSelectionState

\* mutant: the catch block of the container branch resets the list as the
\* catch block of the search does
ContainerFailureClears ==
    /\ statusBanner' = showBanner("critical", MsgContainerFailed)
    /\ suggestions' = <<>>
    /\ panelOpen' = FALSE
    /\ ContainerFinally

\* catch block of the container branch
ContainerFailure ==
    /\ statusBanner' = showBanner("critical", MsgContainerFailed)
    /\ UNCHANGED <<suggestions, panelOpen>>
    /\ ContainerFinally

\* try block of the container branch once the body `data` is read
ContainerSuccess(data) ==
    /\ IF Len(data) = 0
       THEN /\ statusBanner' = showBanner("critical", MsgContainerEmpty)
            /\ UNCHANGED <<suggestions, panelOpen>>
       ELSE /\ suggestions' = data
            /\ panelOpen' = TRUE
            /\ UNCHANGED statusBanner
    /\ ContainerFinally

\* the container fetch resolves with a response
ContainerResponds(i, ok) ==
    /\ i \in 1..Len(cfetches)
    /\ cfetches[i].stage = "fetch"
    /\ IF ok
       THEN /\ cfetches' = [cfetches EXCEPT ![i].stage = "json"]
            /\ UNCHANGED <<suggestions, panelOpen, statusBanner, isSearching,
                           selectionState>>
       ELSE /\ cfetches' = RemoveAt(cfetches, i)
            /\ ContainerFailure
    /\ UNCHANGED <<inputValue, abortRef, mounted, curEff, disposed, timers,
                   fetches, aborted, applyAvailable, applies, hlVars, coVars>>

\* the container fetch, or the reading of its body, rejects
ContainerRejects(i) ==
    /\ i \in 1..Len(cfetches)
    /\ cfetches' = RemoveAt(cfetches, i)
    /\ ContainerFailure
    /\ UNCHANGED <<inputValue, abortRef, mounted, curEff, disposed, timers,
                   fetches, aborted, applyAvailable, applies, hlVars, coVars>>

\* res.json() of the container fetch resolves with the list `data`
ContainerDelivers(i, data) ==
    /\ i \in 1..Len(cfetches)
    /\ cfetches[i].stage = "json"
    /\ cfetches' = RemoveAt(cfetches, i)
    /\ ContainerSuccess(data)
    /\ UNCHANGED <<inputValue, abortRef, mounted, curEff, disposed, timers,
                   fetches, aborted, applyAvailable, applies, hlVars, coVars>>

\* what the promise of applyShippingAddressChange resolves with:
\* { type: 'success' } or { type: 'error', errors: [...] }
ApplyResults == {"success", "error"}

\* the banner shown after the awaited apply call resolved with `result`
BannerAfterApply(result) == showBanner("success", MsgApplied)

\* mutant: the finally block of the apply branch resets the selection as the
\* container branch does
ResetAfterApply(i) == createSelectionState

\* mutant: the finally block of the apply branch writes the pending marker
PendingAfterApply(i) == [status |-> "pending", key |-> applies[i].key]

\* finally block of the apply branch: the selection settles on selectionKey
SettledAfterApply(i) == [status |-> "settled", key |-> applies[i].key]

\* mutant: the try block empties the field and the list after the apply
\* call, as the Checkout.tsx iteration does
ApplySuccessClears ==
    /\ suggestions' = <<>>
    /\ panelOpen' = FALSE
    /\ inputValue' = <<>>
    /\ UNCHANGED isSearching

\* the signals the try block leaves as they are after the awaited call
ApplySuccessFrame == UNCHANGED <<inputValue, suggestions, isSearching, panelOpen>>

\* await applyShippingAddressChange(...) resolves; then the finally block
ApplyResolves(i, result) ==
    /\ i \in 1..Len(applies)
    /\ applies' = RemoveAt(applies, i)
    /\ statusBanner' = BannerAfterApply(result)
    /\ selectionState' = SettledAfterApply(i)
    /\ ApplySuccessFrame
    /\ UNCHANGED <<abortRef, mounted, curEff, disposed, timers, fetches,
                   aborted, applyAvailable, cfetches, hlVars, coVars>>

\* mutant: the catch block resets the suggestion list
ApplyFailureClears ==
    /\ suggestions' = <<>>
    /\ panelOpen' = FALSE
    /\ UNCHANGED inputValue

\* the signals the catch block leaves as they are
ApplyFailureFrame == UNCHANGED <<inputValue, suggestions, panelOpen>>

\* await applyShippingAddressChange(...) rejects: catch, then finally
ApplyThrows(i) ==
    /\ i \in 1..Len(applies)
    /\ applies' = RemoveAt(applies, i)
    /\ statusBanner' = showBanner("critical", MsgApplyFailed)
    /\ selectionState' = SettledAfterApply(i)
    /\ ApplyFailureFrame
    /\ UNCHANGED <<isSearching, abortRef, mounted, curEff, disposed, timers,
                   fetches, aborted, applyAvailable, cfetches, hlVars, coVars>>

-----------------------------------------------------------------------------
(* The controller as a state machine *)

HlIdle ==
    /\ text = <<>>
    /\ highlights = <<>>
    /\ fallbackQuery = <<>>
    /\ rendered = FALSE
    /\ segments = <<>>
    /\ display = <<>>

\* The component after its first render and the mount run of the search
\* effect (which takes the short-query branch for the empty input).
Init ==
    /\ inputValue = <<>>
    /\ suggestions = <<>>
    /\ isSearching = FALSE
    /\ statusBanner = NoBanner
    /\ selectionState = createSelectionState
    /\ panelOpen = FALSE
    /\ abortRef = 0
    /\ mounted = TRUE
    /\ curEff = 1
    /\ disposed = {}
    /\ timers = {}
    /\ fetches = {}
    /\ aborted = {}
    /\ applyAvailable \in BOOLEAN
    /\ cfetches = <<>>
    /\ applies = <<>>
    /\ HlIdle
    /\ debounceRef = 0

Next ==
    \/ \E v \in Inputs : HandleInput(v)
    \/ HandleClear
    \/ HandleFocus
    \/ HidePanel
    \/ DismissBanner
    \/ Unmount
    \/ \E t \in timers : TimerFire(t)
    \/ \E f \in fetches, ok \in BOOLEAN : FetchResponds(f, ok)
    \/ \E f \in fetches : FetchRejects(f)
    \/ \E f \in fetches, data \in ResultLists : FetchDelivers(f, data)
    \/ \E i \in 1..Len(suggestions) : HandleSelectSuggestion(suggestions[i])
    \/ \E i \in 1..Len(cfetches), ok \in BOOLEAN : ContainerResponds(i, ok)
    \/ \E i \in 1..Len(cfetches) : ContainerRejects(i)
    \/ \E i \in 1..Len(cfetches), data \in ResultLists : ContainerDelivers(i, data)
    \/ \E i \in 1..Len(applies), result \in ApplyResults : ApplyResolves(i, result)
    \/ \E i \in 1..Len(applies) : ApplyThrows(i)

Spec == Init /\ [][Next]_vars

\* the timers and promises of the controller: a pending timer fires, a
\* pending fetch, container fetch or apply call settles
TimerFires == \E t \in timers : TimerFire(t)
FetchProgresses ==
    \/ \E f \in fetches, ok \in BOOLEAN : FetchResponds(f, ok)
    \/ \E f \in fetches : FetchRejects(f)
    \/ \E f \in fetches, data \in ResultLists : FetchDelivers(f, data)
ContainerProgresses ==
    \/ \E i \in 1..Len(cfetches), ok \in BOOLEAN : ContainerResponds(i, ok)
    \/ \E i \in 1..Len(cfetches) : ContainerRejects(i)
    \/ \E i \in 1..Len(cfetches), data \in ResultLists : ContainerDelivers(i, data)
ApplyCompletes ==
    \/ \E i \in 1..Len(applies), result \in ApplyResults : ApplyResolves(i, result)
    \/ \E i \in 1..Len(applies) : ApplyThrows(i)

\* values typed into the text field: one too short, one long enough
LiveInputs == {<<>>, <<"a", "b", "c">>}

\* the steps of Next, with the values typed drawn from LiveInputs
NextLive ==
    \/ \E v \in LiveInputs : HandleInput(v)
    \/ HandleClear
    \/ HandleFocus
    \/ HidePanel
    \/ DismissBanner
    \/ Unmount
    \/ TimerFires
    \/ FetchProgresses
    \/ \E i \in 1..Len(suggestions) : HandleSelectSuggestion(suggestions[i])
    \/ ContainerProgresses
    \/ ApplyCompletes

\* The controller with an event loop that runs every due timer callback and
\* every continuation of a settled promise
SpecLive ==
    /\ Init
    /\ [][NextLive]_vars
    /\ WF_vars(TimerFires)
    /\ WF_vars(FetchProgresses)
    /\ WF_vars(ContainerProgresses)
    /\ WF_vars(ApplyCompletes)

-----------------------------------------------------------------------------
(* HighlightedText.tsx: the highlight renderer *)

\* longest text, offsets list and fallback query the renderer is given
MaxTextLen == 3
MaxOffsets == 4
MaxQueryLen == 2

\* all sequences over S of length at most n
SeqsUpTo(S, n) == UNION {[1..k -> S] : k \in 0..n}

\* String.prototype.toLowerCase, character by character
LowerChar(c) ==
    CASE c = "A" -> "a"
      [] c = "M" -> "m"
      [] c = "S" -> "s"
      [] OTHER -> c
\* mutant: the search is case sensitive
KeepCase(s) == s

ToLowerCase(s) == [i \in 1..Len(s) |-> LowerChar(s[i])]

\* text.slice(from, to) / text.substring(from, to) for 0 <= from <= to <= length
Slice(s, from, to) == SubSeq(s, from + 1, to)

\* haystack.indexOf(needle): the first 0-based index of an occurrence, else -1
IndexOf(haystack, needle) ==
    LET hits == {i \in 0..(Len(haystack) - Len(needle)) :
                    Slice(haystack, i, i + Len(needle)) = needle}
    IN IF hits = {} THEN -1
       ELSE CHOOSE i \in hits : \A j \in hits : i <= j

\* mutant: the highlighted slice takes one character more
EndOnePast(rawEnd, start, len) == Min(Max(rawEnd + 2, start), len)

\* mutant: the end offset is taken as exclusive
EndAsGiven(rawEnd, start, len) == Min(Max(rawEnd, start), len)

\* endExclusive of one pair: Math.min(Math.max(rawEnd + 1, start), text.length)
EndExclusive(rawEnd, start, len) == Min(Max(rawEnd + 1, start), len)

\* The for loop over the pairs (lines 14-30), from the 0-based index i with
\* the cursor and the segments pushed so far; its result is <<cursor, segments>>.
RECURSIVE HighlightLoop(_, _, _, _, _)
HighlightLoop(t, h, i, cursor, segs) ==
    IF i >= Len(h) THEN <<cursor, segs>>
    ELSE LET rawStart == h[i + 1]
             rawEnd == IF i + 2 <= Len(h) THEN h[i + 2] ELSE rawStart
             start == Min(Max(rawStart, 0), Len(t))
             endExclusive == EndExclusive(rawEnd, start, Len(t))
             gap == IF start > cursor
                    THEN <<[value |-> Slice(t, cursor, start), isHighlight |-> FALSE]>>
                    ELSE <<>>
             hit == IF endExclusive > start
                    THEN <<[value |-> Slice(t, start, endExclusive), isHighlight |-> TRUE]>>
                    ELSE <<>>
         IN HighlightLoop(t, h, i + 2, endExclusive, segs \o gap \o hit)

\* mutant: the remainder after the last pair is pushed even when it is empty
OffsetSegmentsWithTail(t, h) ==
    HighlightLoop(t, h, 0, 0, <<>>)[2]
    \o <<[value |-> Slice(t, HighlightLoop(t, h, 0, 0, <<>>)[1], Len(t)),
          isHighlight |-> FALSE]>>

\* the branch for explicit offsets (lines 12-33)
OffsetSegments(t, h) ==
    LET r == HighlightLoop(t, h, 0, 0, <<>>)
        cursor == r[1]
    IN IF cursor < Len(t)
       THEN r[2] \o <<[value |-> Slice(t, cursor, Len(t)), isHighlight |-> FALSE]>>
       ELSE r[2]

\* the branch for the fallback query (lines 34-51)
FallbackSegments(t, query) ==
    LET normalizedQuery == Trim(query)
        startIndex == IndexOf(ToLowerCase(t), ToLowerCase(normalizedQuery))
        endIndex == startIndex + Len(normalizedQuery)
    IN IF Len(normalizedQuery) > 0 /\ startIndex # -1
       THEN (IF startIndex > 0
             THEN <<[value |-> Slice(t, 0, startIndex), isHighlight |-> FALSE]>>
             ELSE <<>>)
            \o <<[value |-> Slice(t, startIndex, Min(endIndex, Len(t))),
                  isHighlight |-> TRUE]>>
            \o (IF endIndex < Len(t)
                THEN <<[value |-> Slice(t, endIndex, Len(t)), isHighlight |-> FALSE]>>
                ELSE <<>>)
       ELSE <<>>

\* the segments array after line 55
Segments(t, h, query) ==
    LET segs == IF Len(h) >= 2 THEN OffsetSegments(t, h)
                ELSE IF query # <<>> THEN FallbackSegments(t, query)
                ELSE <<>>
    IN IF Len(segs) = 0 THEN <<[value |-> t, isHighlight |-> FALSE]>> ELSE segs

\* value.match(/^ +/g)?.[0] ?? '': the run of spaces the value starts with
LeadingSpaces(value) == SubSeq(value, 1, Len(value) - Len(TrimStart(value)))

\* value.match(/ +$/g)?.[0] ?? '': the run of spaces the value ends with
TrailingSpaces(value) == SubSeq(value, Len(TrimEnd(value)) + 1, Len(value))

\* spaces.replace(/ /g, U+00A0)
ToNbsp(spaces) == [i \in 1..Len(spaces) |-> NBSP]

\* value.slice(leadingSpaces.length, value.length - trailingSpaces.length)
Middle(value) ==
    LET from == Len(LeadingSpaces(value))
        to == Len(value) - Len(TrailingSpaces(value))
    IN IF to > from THEN Slice(value, from, to) ELSE <<>>

\* displayValue of one segment value (lines 60-65)
DisplayValue(value) ==
    LET shown == ToNbsp(LeadingSpaces(value)) \o Middle(value)
                   \o ToNbsp(TrailingSpaces(value))
    IN IF shown # <<>> THEN shown ELSE <<NBSP>>

\* texts rendered with explicit offsets, and the offsets lists given for them
OffsetTexts == SeqsUpTo({"a", SP}, MaxTextLen)
OffsetLists(t) == SeqsUpTo(-1..(Len(t) + 1), MaxOffsets)
\* texts rendered with a fallback query, and the queries
FallbackTexts == SeqsUpTo({"a", "A", SP}, MaxTextLen)
Queries == SeqsUpTo({"a", "A", SP}, MaxQueryLen)

MainStreet == <<"M", "a", "i", "n", SP, "S", "t", "r", "e", "e", "t">>

\* the controller at rest
CtlIdle ==
    /\ inputValue = <<>>
    /\ suggestions = <<>>
    /\ isSearching = FALSE
    /\ statusBanner = NoBanner
    /\ selectionState = createSelectionState
    /\ panelOpen = FALSE
    /\ abortRef = 0
    /\ mounted = TRUE
    /\ curEff = 1
    /\ disposed = {}
    /\ timers = {}
    /\ fetches = {}
    /\ aborted = {}
    /\ applyAvailable = TRUE
    /\ cfetches = <<>>
    /\ applies = <<>>

\* The props HighlightedText is called with: explicit offsets, or fewer than
\* two offsets and a fallback query, or the examples of the specification.
InitHL ==
    /\ CtlIdle
    /\ debounceRef = 0
    /\ rendered = FALSE
    /\ segments = <<>>
    /\ display = <<>>
    /\ \/ /\ text \in OffsetTexts
          /\ highlights \in OffsetLists(text)
          /\ fallbackQuery = <<>>
       \/ /\ text \in FallbackTexts
          /\ highlights \in SeqsUpTo(-1..(Len(text) + 1), 1)
          /\ fallbackQuery \in Queries
       \/ /\ text = MainStreet
          /\ highlights = <<2, 4>>
          /\ fallbackQuery \in {<<>>, <<"s", "t", "r">>}
       \/ /\ text = MainStreet
          /\ highlights = <<>>
          /\ fallbackQuery \in {<<"s", "t", "r">>, <<SP, "S", "T", SP>>, <<"x">>}

\* one call of the component function
Render ==
    /\ ~rendered
    /\ rendered' = TRUE
    /\ segments' = Segments(text, highlights, fallbackQuery)
    /\ display' = [i \in 1..Len(Segments(text, highlights, fallbackQuery)) |->
                     DisplayValue(Segments(text, highlights, fallbackQuery)[i].value)]
    /\ UNCHANGED <<text, highlights, fallbackQuery, ctlVars, coVars>>

NextHL == Render

SpecHL == InitHL /\ [][NextHL]_vars

-----------------------------------------------------------------------------
(* handleSelectSuggestion over the texts a Location can carry *)

\* longest primary.text and secondary.text of a selected Location
MaxAddrTextLen == 5

AddrTexts == SeqsUpTo({"a", SP, COMMA}, MaxAddrTextLen)
LocationTypes == {TypeSubbuilding, TypeBusiness, TypeOther, TypeAbsent}

\* "Flat 2, 10 Main Street"
FlatExample ==
    <<"F", "l", "a", "t", SP, "2", COMMA, SP, "1", "0", SP,
      "M", "a", "i", "n", SP, "S", "t", "r", "e", "e", "t">>

\* isContainer: boolean and container?: string in every combination
ContainerShapes ==
    {MkLocation(TypeOther, ic, tok, <<"m">>, <<"c", COMMA, "z">>) :
        ic \in BOOLEAN, tok \in {<<>>, <<"k">>}}

\* Locations without a container token: every primary.text with one
\* secondary.text, every secondary.text with one primary.text, and the
\* example of the specification; and the shapes of isContainer and container
AddrLocations ==
    {MkLocation(ty, FALSE, <<>>, p, <<"c", COMMA, "z">>) :
        ty \in LocationTypes, p \in AddrTexts}
    \cup {MkLocation(TypeOther, FALSE, <<>>, <<"m">>, sec) : sec \in AddrTexts}
    \cup {MkLocation(ty, FALSE, <<>>, FlatExample, <<"c", COMMA, "z">>) :
            ty \in LocationTypes}
    \cup ContainerShapes

\* The controller after the search for "abc" returned the single Location
\* loc: mount, handleInput("abc"), the timer, the fetch and its body.
InitAddr ==
    /\ inputValue = <<"a", "b", "c">>
    /\ \E loc \in AddrLocations : suggestions = <<loc>>
    /\ isSearching = FALSE
    /\ statusBanner = NoBanner
    /\ selectionState = createSelectionState
    /\ panelOpen = TRUE
    /\ abortRef = 0
    /\ mounted = TRUE
    /\ curEff = 2
    /\ disposed = {1}
    /\ timers = {}
    /\ fetches = {}
    /\ aborted = {}
    /\ applyAvailable \in BOOLEAN
    /\ cfetches = <<>>
    /\ applies = <<>>
    /\ HlIdle
    /\ debounceRef = 0

NextAddr ==
    \/ \E i \in 1..Len(suggestions) : HandleSelectSuggestion(suggestions[i])
    \/ \E i \in 1..Len(cfetches), ok \in BOOLEAN : ContainerResponds(i, ok)
    \/ \E i \in 1..Len(cfetches) : ContainerRejects(i)
    \/ \E i \in 1..Len(cfetches), data \in ResultLists : ContainerDelivers(i, data)
    \/ \E i \in 1..Len(applies), result \in ApplyResults : ApplyResolves(i, result)
    \/ \E i \in 1..Len(applies) : ApplyThrows(i)

SpecAddr == InitAddr /\ [][NextAddr]_vars

-----------------------------------------------------------------------------
(* Claims about the search effect *)

\* A primary-search fetch is superseded once a newer run of the search
\* effect exists or the component is torn down.
SupersededFetch(f) == f.eff # curEff \/ ~mounted

\* C1: a primary-search fetch that has been superseded (a newer input change
\* or teardown happened after it was scheduled or issued) never writes
\* suggestions, panelOpen or the banner when it settles; a settling fetch that
\* changes suggestions is the one of the latest effect run and carries the
\* trimmed current input value.
C1_SupersededFetchNeverWrites ==
    [][\A f \in fetches :
          (f \notin fetches') =>
             /\ SupersededFetch(f) =>
                   UNCHANGED <<suggestions, panelOpen, statusBanner>>
             /\ suggestions' # suggestions =>
                   /\ f.eff = curEff
                   /\ mounted
                   /\ f.req.text = Trim(inputValue)]_vars

\* C1 witness: a fetch that was issued and then aborted has settled while
\* suggestions of a later search are on display.
C1_Witness ==
    /\ \E e \in aborted : \A f \in fetches : f.eff # e
    /\ suggestions # <<>>
    /\ panelOpen

\* C2: when the search effect runs for an input value whose trimmed length is
\* below MIN_QUERY_LENGTH, that run starts no timer and no fetch (then or
\* later), and right after it suggestions is empty, panelOpen is false and
\* isSearching is false.
C2_ShortQueryResets ==
    /\ [](\A r \in timers \cup fetches :
             LET q == IF r \in timers THEN r.q ELSE r.req.text
             IN q # Undefined /\ Len(q) >= MIN_QUERY_LENGTH)
    /\ [][(curEff' # curEff /\ Len(Trim(inputValue')) < MIN_QUERY_LENGTH) =>
             /\ suggestions' = <<>>
             /\ panelOpen' = FALSE
             /\ isSearching' = FALSE
             /\ timers' \subseteq timers
             /\ fetches' \subseteq fetches
             /\ \A r \in timers' \cup fetches' : r.eff # curEff']_vars

\* C2 witness: the effect has run for a non-empty input that trims to fewer
\* than MIN_QUERY_LENGTH characters, after an earlier search filled the list.
C2_Witness ==
    /\ curEff > 2
    /\ Len(inputValue) >= MIN_QUERY_LENGTH
    /\ Len(Trim(inputValue)) < MIN_QUERY_LENGTH
    /\ suggestions = <<>>
    /\ fetches # {}

\* a primary-search fetch that is issued and neither completed nor aborted
LiveFetches == {f \in fetches : f.eff \notin aborted}

\* C3: in every reachable state at most one primary-search fetch is live and
\* at most one debounce timer is pending.
C3_AtMostOneLive ==
    /\ Cardinality(LiveFetches) <= 1
    /\ Cardinality(timers) <= 1

\* C3 witness: one live fetch while an aborted one has not settled yet.
C3_Witness ==
    /\ Cardinality(LiveFetches) = 1
    /\ Cardinality(fetches) >= 2

-----------------------------------------------------------------------------
(* Claims about handleSelectSuggestion *)

\* the step is a call of handleSelectSuggestion with a container Location
\* (isContainer = true and a non-empty container token)
SelectsContainer(place) ==
    /\ place.isContainer
    /\ place.container # <<>>
    /\ HandleSelectSuggestion(place)

\* the step issues exactly one more container-expansion lookup request, and
\* it carries the token of place and no text
IssuesContainerLookup(place) ==
    /\ Len(cfetches') = Len(cfetches) + 1
    /\ SubSeq(cfetches', 1, Len(cfetches)) = cfetches
    /\ cfetches'[Len(cfetches')].req.container = place.container
    /\ cfetches'[Len(cfetches')].req.text = Undefined

\* C4 as stated: every call of onSelect with a Location that has
\* isContainer = true and a non-empty container token never calls the
\* apply-address collaborator and always issues a follow-up lookup request
\* carrying that container token.
C4_ContainerAlwaysExpands ==
    [][\A i \in 1..Len(suggestions) :
          SelectsContainer(suggestions[i]) =>
             /\ applies' = applies
             /\ IssuesContainerLookup(suggestions[i])]_vars

\* C4 amended: such a call never calls the apply-address collaborator; when
\* the apply-address collaborator is available it issues a follow-up lookup
\* request carrying that container token, and when it is unavailable it
\* issues no request and shows the critical "not available" banner.
C4_ContainerExpandsWhenAvailable ==
    [][\A i \in 1..Len(suggestions) :
          SelectsContainer(suggestions[i]) =>
             /\ applies' = applies
             /\ applyAvailable => IssuesContainerLookup(suggestions[i])
             /\ ~applyAvailable =>
                   /\ cfetches' = cfetches
                   /\ statusBanner' = showBanner("critical", MsgUnavailable)]_vars

\* C4 witness: the container-expansion request of a selected container
\* Location is in flight and no apply call was made.
C4_Witness ==
    /\ applyAvailable
    /\ applies = <<>>
    /\ \E i \in 1..Len(cfetches) :
          /\ cfetches[i].place = LocContainer
          /\ cfetches[i].req.container = LocContainer.container
    /\ selectionState = [status |-> "pending", key |-> getLocationKey(LocContainer)]

\* C5: when the apply-address call made by onSelect fails by throwing,
\* inputValue, suggestions and panelOpen have the same values after the
\* failure is handled as before it, and the banner becomes tone = critical.
C5_ApplyThrowKeepsList ==
    [][\A i \in 1..Len(applies) :
          ApplyThrows(i) =>
             /\ inputValue' = inputValue
             /\ suggestions' = suggestions
             /\ panelOpen' = panelOpen
             /\ statusBanner'.tone = "critical"]_vars

\* C5 witness: an apply call has thrown while the suggestion list is shown.
C5_Witness ==
    /\ statusBanner = showBanner("critical", MsgApplyFailed)
    /\ selectionState.status = "settled"
    /\ suggestions # <<>>
    /\ panelOpen

\* C6: when the apply-address collaborator completes by returning a result
\* that reports field-level validation errors, onSelect shows a critical
\* banner and never a success banner.
C6_ErrorResultShowsCritical ==
    [][\A i \in 1..Len(applies) :
          ApplyResolves(i, "error") =>
             /\ statusBanner'.tone = "critical"
             /\ statusBanner'.tone # "success"]_vars

-----------------------------------------------------------------------------
(* Claims about the highlight renderer *)

\* the concatenation of a sequence of strings
RECURSIVE ConcatAll(_)
ConcatAll(parts) ==
    IF parts = <<>> THEN <<>> ELSE Head(parts) \o ConcatAll(Tail(parts))

\* every non-breaking space mapped back to a space
NbspToSpace(s) == [i \in 1..Len(s) |-> IF s[i] = NBSP THEN SP ELSE s[i]]

\* h is a non-empty flat list of (start, end) pairs that are well formed
\* (start <= end), within the bounds of t, sorted and non-overlapping
WellFormedOffsets(t, h) ==
    /\ Len(h) >= 2
    /\ Len(h) % 2 = 0
    /\ \A k \in 1..(Len(h) \div 2) :
          /\ 0 <= h[2 * k - 1]
          /\ h[2 * k - 1] <= h[2 * k]
          /\ h[2 * k] < Len(t)
    /\ \A k \in 1..((Len(h) \div 2) - 1) : h[2 * k] < h[2 * k + 1]

\* C7: round trip of the renderer with explicit offsets: for any text and
\* any well-formed, sorted, non-overlapping offset pairs within bounds,
\* concatenating the displayed values of all emitted segments in order and
\* mapping every non-breaking space back to a space yields the original text.
C7_RoundTrip ==
    (rendered /\ WellFormedOffsets(text, highlights)) =>
       NbspToSpace(ConcatAll(display)) = text

\* the segments a single in-bounds pair (s, e) must produce, end inclusive
SinglePairSegments(t, s, e) ==
    (IF s > 0 THEN <<[value |-> SubSeq(t, 1, s), isHighlight |-> FALSE]>>
     ELSE <<>>)
    \o <<[value |-> SubSeq(t, s + 1, e + 1), isHighlight |-> TRUE]>>
    \o (IF e + 1 < Len(t)
        THEN <<[value |-> SubSeq(t, e + 2, Len(t)), isHighlight |-> FALSE]>>
        ELSE <<>>)

\* C8: with a single in-bounds pair (s, e), 0 <= s <= e < length, the emitted
\* segments are text[0..s) plain (omitted if empty), text[s..e] highlighted
\* (e - s + 1 characters) and text[e+1..] plain (omitted if empty); [2,4] on
\* "Main Street" yields ("Ma", false), ("in ", true), ("Street", false).
C8_InclusiveEnd ==
    /\ (rendered /\ Len(highlights) = 2 /\ WellFormedOffsets(text, highlights)) =>
          /\ segments = SinglePairSegments(text, highlights[1], highlights[2])
          /\ \E k \in 1..Len(segments) :
                /\ segments[k].isHighlight
                /\ Len(segments[k].value) = highlights[2] - highlights[1] + 1
    /\ (rendered /\ text = MainStreet /\ highlights = <<2, 4>>) =>
          segments = <<[value |-> <<"M", "a">>, isHighlight |-> FALSE],
                       [value |-> <<"i", "n", SP>>, isHighlight |-> TRUE],
                       [value |-> <<"S", "t", "r", "e", "e", "t">>,
                        isHighlight |-> FALSE]>>

\* C8 witness: the example has been rendered into its three segments.
C8_Witness ==
    /\ rendered
    /\ text = MainStreet
    /\ highlights = <<2, 4>>
    /\ Len(segments) = 3
    /\ segments[2].isHighlight

\* the text t has, at the 0-based index i, an occurrence of q that is equal
\* to it up to the case of the letters
OccursAt(t, q, i) ==
    /\ i + Len(q) <= Len(t)
    /\ \A k \in 1..Len(q) : LowerChar(t[i + k]) = LowerChar(q[k])

\* the segments for the first case-insensitive occurrence of q, at index i
MatchSegments(t, q, i) ==
    (IF i > 0 THEN <<[value |-> SubSeq(t, 1, i), isHighlight |-> FALSE]>>
     ELSE <<>>)
    \o <<[value |-> SubSeq(t, i + 1, i + Len(q)), isHighlight |-> TRUE]>>
    \o (IF i + Len(q) < Len(t)
        THEN <<[value |-> SubSeq(t, i + Len(q) + 1, Len(t)), isHighlight |-> FALSE]>>
        ELSE <<>>)

\* C9: with fewer than 2 offsets and a fallback query that is non-empty
\* after trimming, the renderer highlights exactly the first case-insensitive
\* occurrence of the trimmed query: prefix (plain), match (highlighted, in
\* the text's casing), suffix (plain), empty segments omitted; when the query
\* does not occur or is empty after trimming, the whole text is one plain
\* segment. "str" on "Main Street" yields ("Main ", false), ("Str", true),
\* ("eet", false).
C9_FallbackFirstMatch ==
    /\ (rendered /\ Len(highlights) < 2) =>
          LET q == Trim(fallbackQuery)
              hits == {i \in 0..Len(text) : OccursAt(text, q, i)}
          IN IF q # <<>> /\ hits # {}
             THEN \E i \in hits :
                     /\ \A j \in hits : i <= j
                     /\ segments = MatchSegments(text, q, i)
             ELSE segments = <<[value |-> text, isHighlight |-> FALSE]>>
    /\ (rendered /\ text = MainStreet /\ highlights = <<>>
          /\ fallbackQuery = <<"s", "t", "r">>) =>
          segments = <<[value |-> <<"M", "a", "i", "n", SP>>, isHighlight |-> FALSE],
                       [value |-> <<"S", "t", "r">>, isHighlight |-> TRUE],
                       [value |-> <<"e", "e", "t">>, isHighlight |-> FALSE]>>

\* C9 witness: the example has been rendered, the match in the text's casing.
C9_Witness ==
    /\ rendered
    /\ text = MainStreet
    /\ highlights = <<>>
    /\ fallbackQuery = <<"s", "t", "r">>
    /\ Len(segments) = 3
    /\ segments[2] = [value |-> <<"S", "t", "r">>, isHighlight |-> TRUE]

-----------------------------------------------------------------------------
(* Claims about the direct-apply branch *)

\* the part of t before its first comma (all of t when it has none)
BeforeFirstComma(t) ==
    IF IndexOfChar(t, COMMA) = 0 THEN t
    ELSE SubSeq(t, 1, IndexOfChar(t, COMMA) - 1)

\* the part of t after its first comma (empty when it has none)
AfterFirstComma(t) ==
    IF IndexOfChar(t, COMMA) = 0 THEN <<>>
    ELSE SubSeq(t, IndexOfChar(t, COMMA) + 1, Len(t))

\* a string, or unset when it is empty
OrUnset(t) == IF t = <<>> THEN Undefined ELSE t

\* the comma-separated parts of t, each trimmed, the empty ones dropped,
\* joined by a comma and a space
RECURSIVE NormalisedParts(_)
NormalisedParts(t) ==
    LET head == Trim(BeforeFirstComma(t))
        rest == IF IndexOfChar(t, COMMA) = 0 THEN <<>>
                ELSE NormalisedParts(AfterFirstComma(t))
    IN IF head = <<>> THEN rest
       ELSE IF rest = <<>> THEN head
       ELSE head \o <<COMMA, SP>> \o rest

\* the apply calls in flight that were made for a sub-building Location
SubbuildingApplies ==
    {i \in 1..Len(applies) : applies[i].place.type = TypeSubbuilding}

\* C10 as stated: selecting a non-container Location of the sub-building
\* type splits primary.text on the first comma: the trimmed segment before
\* the comma becomes address2 and the remainder after it, when non-empty,
\* becomes address1; company stays unset.
C10_SplitOnFirstComma ==
    \A i \in SubbuildingApplies :
       LET t == applies[i].place.primary
           a == applies[i].address
       IN /\ a.address2 = OrUnset(Trim(BeforeFirstComma(t)))
          /\ Trim(AfterFirstComma(t)) # <<>> =>
                a.address1 = Trim(AfterFirstComma(t))
          /\ a.company = Undefined

\* C10 amended: the trimmed segment before the first comma becomes address2
\* (unset when empty); the remainder after it is taken as its comma-separated
\* parts, each trimmed, empty parts dropped, re-joined with ", ", and when
\* that is non-empty it becomes address1; company stays unset.
\* "Flat 2, 10 Main Street" gives address2 = "Flat 2", address1 =
\* "10 Main Street".
C10_SplitNormalisesRemainder ==
    \A i \in SubbuildingApplies :
       LET t == applies[i].place.primary
           a == applies[i].address
       IN /\ a.address2 = OrUnset(Trim(BeforeFirstComma(t)))
          /\ NormalisedParts(AfterFirstComma(t)) # <<>> =>
                a.address1 = NormalisedParts(AfterFirstComma(t))
          /\ a.company = Undefined
          /\ t = FlatExample =>
                /\ a.address2 = <<"F", "l", "a", "t", SP, "2">>
                /\ a.address1 = <<"1", "0", SP, "M", "a", "i", "n", SP,
                                  "S", "t", "r", "e", "e", "t">>

\* C10 witness: the example Location of the sub-building type was selected
\* and its address handed to the apply-address collaborator.
C10_Witness ==
    \E i \in SubbuildingApplies :
       /\ applies[i].place.primary = FlatExample
       /\ applies[i].address.address2 = <<"F", "l", "a", "t", SP, "2">>
       /\ applies[i].address.company = Undefined

-----------------------------------------------------------------------------
(* The selection marker of the direct-apply branch *)

\* the selection marker with status st for the Location place
SelectionOf(st, place) == [status |-> st, key |-> getLocationKey(place)]

\* C11: onSelect of a Location that takes the direct-apply branch leaves the
\* selection pending on the key of that Location, every step that does not
\* write the selection keeps it, and the completion of the apply call,
\* resolved or rejected, leaves the selection settled on the key of the
\* Location the call was started for.
C11_ApplySettlesSelection ==
    [][/\ \A i \in 1..Len(suggestions) :
             (/\ HandleSelectSuggestion(suggestions[i])
              /\ applyAvailable
              /\ ~IsContainerSelection(suggestions[i]))
                 => selectionState' = SelectionOf("pending", suggestions[i])
       /\ \A i \in 1..Len(applies) :
             ((\E result \in ApplyResults : ApplyResolves(i, result))
                 \/ ApplyThrows(i))
                 => selectionState' = SelectionOf("settled", applies[i].place)]_vars

\* an apply call for LocFlat completed while another one is still awaited
C11_Witness ==
    /\ selectionState = SelectionOf("settled", LocFlat)
    /\ statusBanner = showBanner("critical", MsgApplyFailed)
    /\ Len(applies) = 1

-----------------------------------------------------------------------------
(* Completion of the primary search fetch *)

\* the fetch f belongs to the effect run in force and was not aborted
CurrentFetch(f) == mounted /\ f.eff = curEff /\ f.eff \notin aborted

\* the fetch f fails in this step: a response that is not ok, or a rejection
\* of the fetch or of the reading of its body
FetchFails(f) == FetchResponds(f, FALSE) \/ FetchRejects(f)

\* C12: when the current primary-search fetch fails (a non-2xx response or
\* a network error), the step leaves suggestions empty, the panel closed,
\* isSearching false and the critical banner with the fetch-suggestions
\* message.
C12_CurrentFetchFailure ==
    [][\A f \in fetches :
          (CurrentFetch(f) /\ FetchFails(f)) =>
             /\ suggestions' = <<>>
             /\ panelOpen' = FALSE
             /\ isSearching' = FALSE
             /\ statusBanner' = showBanner("critical", MsgFetchFailed)]_vars

\* the search for the text in the field has failed and nothing is pending
C12_Witness ==
    /\ mounted
    /\ Len(Trim(inputValue)) >= MIN_QUERY_LENGTH
    /\ statusBanner = showBanner("critical", MsgFetchFailed)
    /\ suggestions = <<>>
    /\ ~panelOpen
    /\ ~isSearching
    /\ timers = {}
    /\ fetches = {}

\* the promise the fetch f awaits settles in this step
FetchSettles(f) ==
    \/ FetchFails(f)
    \/ FetchResponds(f, TRUE)
    \/ \E data \in ResultLists : FetchDelivers(f, data)

\* C13: the completion (success, failure or abort error) of a primary fetch
\* that was superseded or aborted changes none of suggestions, panelOpen,
\* statusBanner, selectionState and isSearching; isSearching stays set while
\* the debounce of the newer input is pending.
C13_SupersededCompletionFrame ==
    [][\A f \in fetches :
          (~CurrentFetch(f) /\ FetchSettles(f)) =>
             UNCHANGED <<suggestions, panelOpen, statusBanner, selectionState,
                         isSearching>>]_vars

\* an aborted fetch has settled, the timer of the newer input has not fired
\* yet and the search indicator is still on
C13_Witness ==
    /\ mounted
    /\ \E e \in aborted : \A f \in fetches : f.eff # e
    /\ \E t \in timers : t.eff = curEff
    /\ fetches = {}
    /\ isSearching

\* C14: when the current primary-search fetch succeeds, suggestions becomes
\* the returned list itself (same elements, same order, nothing cut off),
\* the panel is open exactly when that list is non-empty, and isSearching is
\* false.
C14_CurrentFetchSuccess ==
    [][\A f \in fetches : \A data \in ResultLists :
          (CurrentFetch(f) /\ FetchDelivers(f, data)) =>
             /\ suggestions' = data
             /\ panelOpen' = (data # <<>>)
             /\ isSearching' = FALSE]_vars

\* a body of six results, more than the five asked for, is on display
C14_Witness ==
    /\ mounted
    /\ suggestions = SixResults
    /\ panelOpen
    /\ ~isSearching
    /\ fetches = {}

-----------------------------------------------------------------------------
(* Completion of the container-expansion fetch *)

\* C15: when a container-expansion fetch succeeds with a non-empty list,
\* the step replaces suggestions by that list, opens the panel, returns the
\* selection to idle and clears isSearching.
C15_ContainerExpansionReplaces ==
    [][\A i \in 1..Len(cfetches) : \A data \in ResultLists :
          (data # <<>> /\ ContainerDelivers(i, data)) =>
             /\ suggestions' = data
             /\ panelOpen' = TRUE
             /\ selectionState' = createSelectionState
             /\ isSearching' = FALSE]_vars

\* the field holds a text too short to search for, so the list on display
\* can only be the body of a container expansion
C15_Witness ==
    /\ mounted
    /\ Len(Trim(inputValue)) < MIN_QUERY_LENGTH
    /\ suggestions # <<>>
    /\ panelOpen
    /\ selectionState = createSelectionState
    /\ ~isSearching
    /\ cfetches = <<>>

\* the container fetch i ends without results in this step: a response that
\* is not ok, a rejection, or a body that is the empty list
ContainerEndsEmpty(i) ==
    \/ ContainerResponds(i, FALSE)
    \/ ContainerRejects(i)
    \/ ContainerDelivers(i, <<>>)

\* C16: when a container-expansion fetch fails outright or succeeds with an
\* empty list, the step shows a critical banner and leaves suggestions and
\* panelOpen as they were.
C16_ContainerFailureKeepsList ==
    [][\A i \in 1..Len(cfetches) :
          ContainerEndsEmpty(i) =>
             /\ statusBanner'.tone = "critical"
             /\ statusBanner'.message \in {MsgContainerFailed, MsgContainerEmpty}
             /\ UNCHANGED <<suggestions, panelOpen>>]_vars

\* the expansion of LocContainer came back empty and the list it was chosen
\* from is still on display
C16_Witness ==
    /\ statusBanner = showBanner("critical", MsgContainerEmpty)
    /\ \E i \in 1..Len(suggestions) : suggestions[i] = LocContainer
    /\ panelOpen
    /\ cfetches = <<>>

-----------------------------------------------------------------------------
(* The handlers of the text field *)

\* C17: onInput(newValue) leaves inputValue = newValue, the selection idle
\* and no banner, and issues no lookup fetch in that step; a primary-search
\* fetch is only ever issued by the firing of a debounce timer, for the
\* query the timer was started with.
C17_InputResetsWithoutFetch ==
    [][/\ \A v \in Inputs :
             HandleInput(v) =>
                /\ inputValue' = v
                /\ selectionState' = createSelectionState
                /\ statusBanner' = NoBanner
                /\ fetches' = fetches
                /\ cfetches' = cfetches
       /\ \A f \in fetches' \ fetches :
             \/ f.stage = "json"
             \/ \E t \in timers :
                   TimerFire(t) /\ f.eff = t.eff /\ f.req.text = t.q]_vars

\* a new value was typed while results and nothing else were on display:
\* the debounce timer for it is pending and no fetch has been issued
C17_Witness ==
    /\ mounted
    /\ suggestions # <<>>
    /\ \E t \in timers : t.eff = curEff /\ t.q = Trim(inputValue)
    /\ fetches = {}
    /\ cfetches = <<>>
    /\ applies = <<>>
    /\ selectionState = createSelectionState
    /\ statusBanner = NoBanner

\* C18: onClear, from whatever state it is called in, leaves in one step
\* inputValue the empty string, suggestions empty, the panel closed, the
\* selection idle and no banner.
C18_ClearResetsAll ==
    [][HandleClear =>
          /\ inputValue' = <<>>
          /\ suggestions' = <<>>
          /\ panelOpen' = FALSE
          /\ selectionState' = createSelectionState
          /\ statusBanner' = NoBanner]_vars

\* the field was emptied while an apply call was awaited and a search was
\* in flight
C18_Witness ==
    /\ mounted
    /\ curEff > 1
    /\ inputValue = <<>>
    /\ suggestions = <<>>
    /\ ~panelOpen
    /\ selectionState = createSelectionState
    /\ statusBanner = NoBanner
    /\ applies # <<>>
    /\ fetches # {}

\* C19: onFocus sets panelOpen to whether suggestions is non-empty, issues
\* no request, starts no timer, and leaves inputValue, suggestions,
\* isSearching, selectionState and statusBanner unchanged.
C19_FocusOnlyTogglesPanel ==
    [][HandleFocus =>
          /\ panelOpen' = (suggestions # <<>>)
          /\ UNCHANGED <<inputValue, suggestions, isSearching, selectionState,
                         statusBanner>>
          /\ UNCHANGED <<timers, fetches, cfetches, applies>>]_vars

\* the panel shows the earlier results while the timer of a newer input is
\* pending and an apply call is awaited: a state onFocus leaves as it is
C19_Witness ==
    /\ mounted
    /\ panelOpen
    /\ suggestions # <<>>
    /\ isSearching
    /\ \E t \in timers : t.eff = curEff
    /\ applies # <<>>

-----------------------------------------------------------------------------
(* The two behaviours of handleSelectSuggestion *)

\* the step hands exactly one more address, derived from place, to the
\* apply-address collaborator
IssuesApply(place) ==
    /\ Len(applies') = Len(applies) + 1
    /\ SubSeq(applies', 1, Len(applies)) = applies
    /\ applies'[Len(applies')].place = place

\* container expansion and nothing else
ExpandsOnly(place) == IssuesContainerLookup(place) /\ applies' = applies

\* direct apply and nothing else
AppliesOnly(place) == IssuesApply(place) /\ cfetches' = cfetches

\* C20 as stated: for every Location passed to onSelect exactly one of the
\* two selection behaviours happens, and isContainer alone determines which:
\* container expansion when it is true, direct apply when it is false.
C20_BranchByIsContainerAlone ==
    [][\A i \in 1..Len(suggestions) :
          HandleSelectSuggestion(suggestions[i]) =>
             IF suggestions[i].isContainer
             THEN ExpandsOnly(suggestions[i])
             ELSE AppliesOnly(suggestions[i])]_vars

\* C20 amended: when the apply-address collaborator is available, for every
\* Location passed to onSelect exactly one of the two selection behaviours
\* happens, determined by isContainer together with the container token:
\* container expansion when isContainer is true and the token is non-empty,
\* direct apply otherwise; when the collaborator is unavailable neither
\* happens and the critical "not available" banner is shown.
C20_BranchByFlagAndToken ==
    [][\A i \in 1..Len(suggestions) :
          HandleSelectSuggestion(suggestions[i]) =>
             /\ applyAvailable =>
                   IF suggestions[i].isContainer /\ suggestions[i].container # <<>>
                   THEN ExpandsOnly(suggestions[i])
                   ELSE AppliesOnly(suggestions[i])
             /\ ~applyAvailable =>
                   /\ cfetches' = cfetches
                   /\ applies' = applies
                   /\ statusBanner' = showBanner("critical", MsgUnavailable)]_vars

\* a Location with isContainer = true and no container token was selected
\* and its address handed to the apply-address collaborator
C20_Witness ==
    \E i \in 1..Len(applies) :
       /\ applies[i].place.isContainer
       /\ applies[i].place.container = <<>>

-----------------------------------------------------------------------------
(* The lookup requests *)

\* the parameters req carry text and not container
CarriesTextOnly(req) == req.text # Undefined /\ req.container = Undefined

\* the parameters req carry container and not text
CarriesContainerOnly(req) == req.container # Undefined /\ req.text = Undefined

\* C21: every lookup request issued carries exactly one of text and
\* container: a primary-search request carries a non-empty trimmed text (the
\* trimmed input value, for the request of the effect run in force) with
\* maxResults 5, a container-expansion request carries the token of the
\* selected Location with maxResults 100.
C21_TextXorContainer ==
    /\ \A f \in fetches :
          /\ CarriesTextOnly(f.req)
          /\ f.req.maxResults = 5
          /\ f.req.text # <<>>
          /\ f.req.text = Trim(f.req.text)
          /\ CurrentFetch(f) => f.req.text = Trim(inputValue)
    /\ \A i \in 1..Len(cfetches) :
          /\ CarriesContainerOnly(cfetches[i].req)
          /\ cfetches[i].req.maxResults = 100
          /\ cfetches[i].req.container = cfetches[i].place.container
          /\ cfetches[i].req.container # <<>>

\* a primary-search request for an input with a trailing space and a
\* container-expansion request are in flight together
C21_Witness ==
    /\ \E f \in fetches :
          /\ CurrentFetch(f)
          /\ inputValue # Trim(inputValue)
          /\ f.req.text = Trim(inputValue)
    /\ \E i \in 1..Len(cfetches) : cfetches[i].req.container = <<"k">>

-----------------------------------------------------------------------------
(* city and zip of the direct-apply branch *)

\* the comma-separated pieces of t that hold something other than spaces
NonBlankPieces(t) ==
    {k \in 1..Len(SplitComma(t)) :
        \E j \in 1..Len(SplitComma(t)[k]) : SplitComma(t)[k][j] # SP}

\* the n-th of those pieces, trimmed; the empty string when there are fewer
NthPart(t, n) ==
    LET ks == {k \in NonBlankPieces(t) :
                  Cardinality({j \in NonBlankPieces(t) : j < k}) = n - 1}
    IN IF ks = {} THEN <<>>
       ELSE Trim(SplitComma(t)[CHOOSE k \in ks : TRUE])

\* C22: in the direct-apply branch city and zip are the first and the second
\* of the comma-separated parts of secondary.text after each part is trimmed
\* and the empty ones are discarded; a missing part gives the empty string
\* and parts beyond the second are ignored.
C22_CityZipFromSecondary ==
    \A i \in 1..Len(applies) :
       /\ applies[i].address.city = NthPart(applies[i].place.secondary, 1)
       /\ applies[i].address.zip = NthPart(applies[i].place.secondary, 2)

\* an address was derived from a secondary.text with a third part after
\* the zip
C22_Witness ==
    \E i \in 1..Len(applies) :
       /\ applies[i].place.secondary = <<"a", COMMA, "a", COMMA, "a">>
       /\ applies[i].address.city = <<"a">>
       /\ applies[i].address.zip = <<"a">>

-----------------------------------------------------------------------------
(* address1, address2 and company of the direct-apply branch *)

\* the apply calls in flight that were made for a business Location
BusinessApplies ==
    {i \in 1..Len(applies) : applies[i].place.type = TypeBusiness}

\* the apply calls in flight made for a Location of neither classification
PlainApplies ==
    {i \in 1..Len(applies) : applies[i].place.type \in {TypeOther, TypeAbsent}}

C24_Address1TrimFallback ==
    \A i \in PlainApplies :
       LET t == applies[i].place.primary
       IN applies[i].address.address1 = (IF Trim(t) = <<>> THEN t ELSE Trim(t))

\* a Location whose primary.text is two spaces was selected and address1 is
\* those two spaces
C24_Witness ==
    \E i \in PlainApplies :
       /\ applies[i].place.primary = <<SP, SP>>
       /\ applies[i].address.address1 = <<SP, SP>>

-----------------------------------------------------------------------------
(* Return to an interactive state *)

\* a step taken by the user or the host: the handlers of the field, of the
\* list and of the banner, and the teardown of the component
UserEvent ==
    \/ \E v \in Inputs : HandleInput(v)
    \/ HandleClear
    \/ HandleFocus
    \/ HidePanel
    \/ DismissBanner
    \/ Unmount
    \/ \E i \in 1..Len(suggestions) : HandleSelectSuggestion(suggestions[i])

\* no search indicator and no selection in progress
Interactive == ~isSearching /\ selectionState.status # "pending"

\* C25: when every pending timer fires and every fetch and apply call
\* settles (the fairness of SpecLive), and user events eventually stop, the
\* mounted widget eventually reaches and keeps a state in which isSearching
\* is false and the selection is not pending, whatever failed on the way.
C25_ReturnsToInteractive ==
    ([]<><<UserEvent>>_vars) \/ <>[](mounted => Interactive)

\* a search and an apply call have both failed, nothing is in flight, and
\* the widget is interactive
C25_Witness ==
    /\ mounted
    /\ Interactive
    /\ selectionState.status = "settled"
    /\ statusBanner = showBanner("critical", MsgApplyFailed)
    /\ timers = {}
    /\ fetches = {}
    /\ cfetches = <<>>
    /\ applies = <<>>

-----------------------------------------------------------------------------
(* Issue of the primary lookup fetch *)

\* the primary-search fetches this step issues
IssuedFetches == {f \in fetches' \ fetches : f.stage = "fetch"}

\* C26: a primary lookup fetch is issued only by the firing of the debounce
\* timer of the most recent input change, on the mounted component: the
\* timer of an input change that was followed by another one or by teardown
\* issues nothing, and the request issued carries the trimmed value the
\* input holds at that moment.
C26_IssuedByCurrentTimerOnly ==
    [][\A f \in IssuedFetches :
          \E t \in timers :
             /\ TimerFire(t)
             /\ mounted
             /\ t.eff = curEff
             /\ f.eff = t.eff
             /\ f.req.text = Trim(inputValue)]_vars

\* the fetch of the third input change is the only one ever issued: the
\* change before it was superseded before its timer fired, or was too short
C26_Witness ==
    /\ mounted
    /\ curEff = 3
    /\ aborted = {}
    /\ \E f \in fetches :
          /\ fetches = {f}
          /\ f.eff = curEff
          /\ f.req.text = Trim(inputValue)
          /\ inputValue # Trim(inputValue)

-----------------------------------------------------------------------------
(* The segments of the highlight renderer *)

\* no two consecutive segments have the same isHighlight flag
Alternates(segs) ==
    \A k \in 1..(Len(segs) - 1) : segs[k].isHighlight # segs[k + 1].isHighlight

\* some pair of h starts at the character right after the end of the pair
\* before it
HasAdjacentPairs(h) ==
    \E k \in 1..((Len(h) \div 2) - 1) : h[2 * k + 1] = h[2 * k] + 1

\* C27 as stated: for any text and any well-formed, sorted, non-overlapping
\* in-bounds offset pairs, no two consecutive emitted segments have the same
\* isHighlight flag.
C27_SegmentsAlternate ==
    (rendered /\ WellFormedOffsets(text, highlights)) => Alternates(segments)

\* C27 amended: for such offsets no two consecutive segments are both plain,
\* and two consecutive segments are both highlighted exactly when a pair
\* starts right after the end of the pair before it; when no two pairs are
\* adjacent the flags alternate.
C27_AlternateUnlessAdjacent ==
    (rendered /\ WellFormedOffsets(text, highlights)) =>
       /\ \A k \in 1..(Len(segments) - 1) :
             segments[k].isHighlight \/ segments[k + 1].isHighlight
       /\ Alternates(segments) <=> ~HasAdjacentPairs(highlights)

\* "aaa" with the pairs (0,0) and (2,2): highlighted, plain, highlighted
C27_Witness ==
    /\ rendered
    /\ text = <<"a", "a", "a">>
    /\ highlights = <<0, 0, 2, 2>>
    /\ Len(segments) = 3
    /\ segments[1].isHighlight
    /\ ~segments[2].isHighlight
    /\ segments[3].isHighlight

\* value is text.slice(from, to) for some 0 <= from <= to <= text.length
IsSliceOf(value, t) ==
    \E from \in 0..Len(t) : \E to \in from..Len(t) : value = Slice(t, from, to)

\* the number of characters emitted, over all segments
EmittedLength(segs) == Len(ConcatAll([k \in 1..Len(segs) |-> segs[k].value]))

\* C28: for any text and any offsets list (unsorted, overlapping, negative
\* or beyond the text length) the renderer produces a result, every emitted
\* segment is an in-bounds slice of the text, and a pair that starts before
\* the cursor is clamped to empty, so that no character position is emitted
\* in more than one segment (hence no more characters are emitted than the
\* text has).
C28_MalformedOffsetsClamped ==
    (rendered /\ Len(highlights) >= 2) =>
       /\ Len(segments) >= 1
       /\ \A k \in 1..Len(segments) : IsSliceOf(segments[k].value, text)
       /\ EmittedLength(segments) <= Len(text)

-----------------------------------------------------------------------------
(* The displayed value of a segment *)

\* value with each space of its leading run and of its trailing run replaced
\* by one non-breaking space; one non-breaking space for the empty value
SpacingPreserved(value) ==
    IF value = <<>> THEN <<NBSP>>
    ELSE [i \in 1..Len(value) |->
            IF \/ \A j \in 1..i : value[j] = SP
               \/ \A j \in i..Len(value) : value[j] = SP
            THEN NBSP ELSE value[i]]

\* C29: for every emitted segment value the displayed value is the value
\* with each leading and each trailing space replaced by exactly one
\* non-breaking space and every other character unchanged (a non-empty value
\* and its displayed value have the same length); an empty value is
\* displayed as exactly one non-breaking space.
C29_DisplayPreservesSpacing ==
    rendered =>
       \A k \in 1..Len(segments) :
          /\ display[k] = SpacingPreserved(segments[k].value)
          /\ segments[k].value # <<>> =>
                Len(display[k]) = Len(segments[k].value)

-----------------------------------------------------------------------------
(* Selections in rapid succession *)

\* the sequence s with its i-th element taken out
Without(s, i) == [k \in 1..(Len(s) - 1) |-> IF k < i THEN s[k] ELSE s[k + 1]]

\* s2 is s1 with one more element at its end
ExtendsByOne(s1, s2) == Len(s2) = Len(s1) + 1 /\ SubSeq(s2, 1, Len(s1)) = s1

\* more than one request of a selection is in flight
ConcurrentSelections == Len(cfetches) + Len(applies) >= 2

\* C30: a selection made while the request of an earlier selection is in
\* flight cancels nothing: a request in flight leaves the ones in flight only
\* by its own completion, and each completion applies its own effects
\* (banner, replacement of the suggestions, write of the selection state)
\* at the moment it happens, whatever else is in flight.
C30_SelectionsIndependent ==
    [][/\ \/ applies' = applies
          \/ ExtendsByOne(applies, applies')
          \/ \E i \in 1..Len(applies) :
                /\ applies' = Without(applies, i)
                /\ ApplyThrows(i) \/ \E r \in ApplyResults : ApplyResolves(i, r)
       /\ \/ cfetches' = cfetches
          \/ ExtendsByOne(cfetches, cfetches')
          \/ \E i \in 1..Len(cfetches) :
                \/ /\ cfetches' = Without(cfetches, i)
                   /\ ContainerEndsEmpty(i)
                         \/ \E data \in ResultLists : ContainerDelivers(i, data)
                \/ /\ cfetches' = [cfetches EXCEPT ![i].stage = "json"]
                   /\ ContainerResponds(i, TRUE)
       /\ ConcurrentSelections =>
             /\ \A i \in 1..Len(applies) :
                   /\ ApplyThrows(i) =>
                         /\ statusBanner' = showBanner("critical", MsgApplyFailed)
                         /\ selectionState' = SelectionOf("settled", applies[i].place)
                   /\ ApplyResolves(i, "success") =>
                         /\ statusBanner' = showBanner("success", MsgApplied)
                         /\ selectionState' = SelectionOf("settled", applies[i].place)
             /\ \A i \in 1..Len(cfetches) : \A data \in ResultLists \ {<<>>} :
                   ContainerDelivers(i, data) =>
                      /\ suggestions' = data
                      /\ selectionState' = createSelectionState]_vars

\* a container expansion was chosen while the apply call of an earlier
\* selection is still awaited
C30_Witness ==
    /\ Len(applies) = 1
    /\ Len(cfetches) = 1
    /\ selectionState = SelectionOf("pending", cfetches[1].place)
    /\ isSearching

-----------------------------------------------------------------------------
(* Claims about the suspension points of the controller *)

\* the suspension points that are outstanding: a pending debounce timer, a
\* lookup fetch in flight (primary search, not aborted, or container
\* expansion), an address-apply call in flight
TimerPending == timers # {}
LookupsInFlight == Cardinality(LiveFetches) + Len(cfetches)
ApplyInFlight == applies # <<>>
OutstandingKinds ==
    (IF TimerPending THEN 1 ELSE 0)
    + (IF LookupsInFlight > 0 THEN 1 ELSE 0)
    + (IF ApplyInFlight THEN 1 ELSE 0)

\* C31: the three suspension points are never outstanding in parallel: no
\* reachable state has more than one of a pending debounce timer, a lookup
\* fetch in flight (primary or container expansion) and an address-apply call
\* in flight, and no reachable state has two lookup fetches in flight at once.
C31_NoneInParallel ==
    /\ OutstandingKinds <= 1
    /\ LookupsInFlight <= 1

-----------------------------------------------------------------------------
(* Checkout.tsx: the search effect of the useState/useEffect iteration *)

\* abortRef.current?.abort(), in the cleanup and in the timer callback
CheckoutAbort == IF abortRef = 0 THEN aborted ELSE aborted \cup {abortRef}

\* if (debounceRef.current) clearTimeout(debounceRef.current)
CheckoutClearTimeout == {t \in timers : t.eff # debounceRef}

\* the effect run for the value v returned a cleanup function: the
\* short-query branch returns before it gets there
CheckoutHasCleanup(v) == Len(Trim(v)) >= MIN_QUERY_LENGTH

\* useEffect(..., [inputValue, clearBanner, showBanner]) after inputValue
\* changed to v: the cleanup of the previous run, then the body of the new
\* run. The handle of the timer it sets is the number of the run.
CheckoutSearchEffect(v) ==
    LET e == curEff + 1
        cleaned == IF CheckoutHasCleanup(inputValue)
                   THEN CheckoutClearTimeout ELSE timers
        short == Len(Trim(v)) < MIN_QUERY_LENGTH
    IN [curEff |-> e,
        aborted |-> IF CheckoutHasCleanup(inputValue)
                    THEN CheckoutAbort ELSE aborted,
        timers |-> IF short THEN cleaned
                   ELSE {t \in cleaned : t.eff # debounceRef}
                        \cup {[eff |-> e, q |-> Trim(v)]},
        debounceRef |-> IF short THEN debounceRef ELSE e,
        suggestions |-> IF short THEN <<>> ELSE suggestions,
        panelOpen |-> IF short THEN FALSE ELSE panelOpen,
        isSearching |-> ~short,
        statusBanner |-> IF short THEN statusBanner ELSE NoBanner]

\* handleInput of Checkout.tsx: setInputValue(value ?? ''); clearBanner().
\* The effect runs only when the value differs from the one it last ran for.
CheckoutHandleInput(v) ==
    /\ mounted
    /\ IF v = inputValue
       THEN UNCHANGED <<inputValue, suggestions, panelOpen, isSearching,
                        curEff, aborted, timers, debounceRef>>
       ELSE /\ curEff < MaxEffectRuns
            /\ LET r == CheckoutSearchEffect(v)
               IN /\ inputValue' = v
                  /\ curEff' = r.curEff
                  /\ aborted' = r.aborted
                  /\ timers' = r.timers
                  /\ debounceRef' = r.debounceRef
                  /\ suggestions' = r.suggestions
                  /\ panelOpen' = r.panelOpen
                  /\ isSearching' = r.isSearching
    /\ statusBanner' = NoBanner
    /\ UNCHANGED <<selectionState, abortRef, mounted, disposed, fetches,
                   applyAvailable, cfetches, applies, hlVars>>

\* handleClear of Checkout.tsx
CheckoutHandleClear ==
    /\ mounted
    /\ Len(inputValue) > 0
    /\ curEff < MaxEffectRuns
    /\ LET r == CheckoutSearchEffect(<<>>)
       IN /\ inputValue' = <<>>
          /\ curEff' = r.curEff
          /\ aborted' = r.aborted
          /\ timers' = r.timers
          /\ debounceRef' = r.debounceRef
          /\ isSearching' = r.isSearching
    /\ suggestions' = <<>>
    /\ panelOpen' = FALSE
    /\ selectionState' = createSelectionState
    /\ statusBanner' = NoBanner
    /\ UNCHANGED <<abortRef, mounted, disposed, fetches, applyAvailable,
                   cfetches, applies, hlVars>>

\* the component unmounts: the cleanup of the last run of the effect
CheckoutUnmount ==
    /\ mounted
    /\ mounted' = FALSE
    /\ IF CheckoutHasCleanup(inputValue)
       THEN timers' = CheckoutClearTimeout /\ aborted' = CheckoutAbort
       ELSE UNCHANGED <<timers, aborted>>
    /\ UNCHANGED <<inputValue, suggestions, isSearching, statusBanner,
                   selectionState, panelOpen, abortRef, curEff, disposed,
                   fetches, applyAvailable, cfetches, applies, hlVars, coVars>>

\* the debounce timer fires: the previous controller is aborted, a new one
\* is stored in abortRef and the fetch is started with its signal
CheckoutTimerFire(t) ==
    /\ t \in timers
    /\ timers' = timers \ {t}
    /\ aborted' = CheckoutAbort
    /\ abortRef' = t.eff
    /\ fetches' = fetches \cup
         {[eff |-> t.eff, req |-> buildLookupUrl(5, t.q, <<>>), stage |-> "fetch"]}
    /\ UNCHANGED <<inputValue, suggestions, isSearching, statusBanner,
                   selectionState, panelOpen, mounted, curEff, disposed,
                   applyAvailable, cfetches, applies, hlVars, coVars>>

\* finally { setIsSearching(false) }
CheckoutLookupFinally == isSearching' = FALSE

\* try block after both awaits resolved with the body `data`
CheckoutLookupSuccess(data) ==
    /\ suggestions' = SubSeq(data, 1, Min(5, Len(data)))
    /\ panelOpen' = (Min(5, Len(data)) > 0)
    /\ UNCHANGED statusBanner
    /\ CheckoutLookupFinally

\* catch block: if (abortRef.current?.signal.aborted) return; otherwise the
\* list is cleared and the critical banner shown; then the finally block
CheckoutLookupFailure ==
    /\ IF abortRef # 0 /\ abortRef \in aborted
       THEN UNCHANGED <<suggestions, panelOpen, statusBanner>>
       ELSE /\ suggestions' = <<>>
            /\ panelOpen' = FALSE
            /\ statusBanner' = showBanner("critical", MsgFetchFailed)
    /\ CheckoutLookupFinally

\* await fetch(...) resolves with a response (a fetch whose signal is
\* aborted only rejects)
CheckoutFetchResponds(f, ok) ==
    /\ f \in fetches
    /\ f.stage = "fetch"
    /\ f.eff \notin aborted
    /\ IF ok
       THEN /\ fetches' = (fetches \ {f}) \cup {[f EXCEPT !.stage = "json"]}
            /\ UNCHANGED <<suggestions, panelOpen, statusBanner, isSearching>>
       ELSE /\ fetches' = fetches \ {f}
            /\ CheckoutLookupFailure
    /\ UNCHANGED <<inputValue, selectionState, abortRef, mounted, curEff,
                   disposed, timers, aborted, applyAvailable, cfetches,
                   applies, hlVars, coVars>>

\* await fetch(...) or await res.json() rejects: a network error, a body
\* that does not parse, or the AbortError of an aborted signal
CheckoutFetchRejects(f) ==
    /\ f \in fetches
    /\ fetches' = fetches \ {f}
    /\ CheckoutLookupFailure
    /\ UNCHANGED <<inputValue, selectionState, abortRef, mounted, curEff,
                   disposed, timers, aborted, applyAvailable, cfetches,
                   applies, hlVars, coVars>>

\* await res.json() resolves with the list `data`
CheckoutFetchDelivers(f, data) ==
    /\ f \in fetches
    /\ f.stage = "json"
    /\ f.eff \notin aborted
    /\ fetches' = fetches \ {f}
    /\ CheckoutLookupSuccess(data)
    /\ UNCHANGED <<inputValue, selectionState, abortRef, mounted, curEff,
                   disposed, timers, aborted, applyAvailable, cfetches,
                   applies, hlVars, coVars>>

\* Checkout.tsx after its first render and the mount run of the effect
InitCheckout ==
    /\ CtlIdle
    /\ HlIdle
    /\ debounceRef = 0

NextCheckout ==
    \/ \E v \in Inputs : CheckoutHandleInput(v)
    \/ CheckoutHandleClear
    \/ CheckoutUnmount
    \/ \E t \in timers : CheckoutTimerFire(t)
    \/ \E f \in fetches, ok \in BOOLEAN : CheckoutFetchResponds(f, ok)
    \/ \E f \in fetches : CheckoutFetchRejects(f)
    \/ \E f \in fetches, data \in ResultLists : CheckoutFetchDelivers(f, data)

SpecCheckout == InitCheckout /\ [][NextCheckout]_vars

\* the debounce cycle of the latest keystroke is under way: its timer is
\* pending or its fetch has not settled
NewestCyclePending ==
    \/ \E t \in timers : t.eff = debounceRef
    \/ \E f \in fetches : f.eff = debounceRef /\ f.eff \notin aborted

\* C32: in the Checkout.tsx iteration isSearching is not cleared when a
\* lookup fetch in flight is aborted by a newer keystroke: from a keystroke
\* with at least 3 trimmed characters until the fetch of the newest debounce
\* cycle reaches a terminal path (success or real failure), isSearching
\* stays true.
C32_SearchingUntilNewestSettles ==
    (mounted /\ Len(Trim(inputValue)) >= MIN_QUERY_LENGTH /\ NewestCyclePending)
        => isSearching

-----------------------------------------------------------------------------
(* Claims about the frame of the selection handler and of the panel *)

\* an apply call in flight completes and the success banner is shown
ApplySucceeds ==
    /\ Len(applies') = Len(applies) - 1
    /\ statusBanner' = showBanner("success", MsgApplied)

\* C33: a successful apply changes only statusBanner (tone success, the
\* "applied" message) and selectionState (settled on the key of the applied
\* Location): inputValue, suggestions, panelOpen and isSearching keep their
\* values, and no lookup is triggered (no timer set, no fetch issued).
C33_ApplySuccessFrame ==
    [][ApplySucceeds =>
          /\ UNCHANGED <<inputValue, suggestions, panelOpen, isSearching>>
          /\ UNCHANGED <<timers, fetches, cfetches>>
          /\ statusBanner'.tone = "success"
          /\ \E i \in 1..Len(applies) :
                /\ applies' = Without(applies, i)
                /\ selectionState' = [status |-> "settled", key |-> applies[i].key]
       ]_vars

\* C33 witness: the address was applied while the field holds a query, the
\* list is shown and a newer search is under way
C33_Witness ==
    /\ statusBanner = showBanner("success", MsgApplied)
    /\ selectionState.status = "settled"
    /\ Len(Trim(inputValue)) >= MIN_QUERY_LENGTH
    /\ suggestions # <<>>
    /\ panelOpen
    /\ isSearching
    /\ timers # {}

\* C34: in every reachable state an open panel has suggestions to show:
\* panelOpen = true implies that suggestions is non-empty.
C34_OpenPanelHasSuggestions == panelOpen => suggestions # <<>>

\* C34 witness: the panel is open on the list of an earlier lookup while the
\* fetch of a newer query is in flight
C34_Witness ==
    /\ panelOpen
    /\ suggestions # <<>>
    /\ mounted
    /\ LiveFetches # {}

\* C35: once the search effect has run for the current input, every
\* reachable state in which the trimmed inputValue is shorter than 3
\* characters has suggestions empty and panelOpen false: no late completion
\* of an earlier request (primary or container expansion) repopulates
\* suggestions or reopens the panel.
C35_ShortInputShowsNothing ==
    (mounted /\ Len(Trim(inputValue)) < MIN_QUERY_LENGTH) =>
        (suggestions = <<>> /\ ~panelOpen)

\* C36: isSearching is true in every reachable state in which a debounce
\* timer is pending or a lookup fetch (an un-aborted primary fetch or a
\* container expansion) is in flight: no completion clears the flag while
\* another request or timer is outstanding.
C36_SearchingWhileOutstanding ==
    (mounted /\ (TimerPending \/ LookupsInFlight > 0)) => isSearching

-----------------------------------------------------------------------------
(* Two direct-apply selections in flight *)

\* Locations of a result list that take the direct-apply branch
ApplyLocations ==
    {MkLocation(ty, FALSE, <<>>, p, <<"c", COMMA, "z">>) :
        ty \in {TypeSubbuilding, TypeOther},
        p \in {<<"m">>, <<"f", COMMA, "m">>, <<"a", SP, "b">>}}

\* the apply call handleSelectSuggestion awaits for `place`
ApplyCall(place) ==
    [place |-> place, key |-> getLocationKey(place), address |-> DeriveAddress(place)]

\* The controller after a search for "abc" returned two Locations and the
\* user clicked the first row and then the second one, both apply calls
\* still awaited: the second row is the most recent selection.
InitRace ==
    /\ inputValue = <<"a", "b", "c">>
    /\ \E l1 \in ApplyLocations, l2 \in ApplyLocations :
          /\ getLocationKey(l1) # getLocationKey(l2)
          /\ suggestions = <<l1, l2>>
          /\ applies = <<ApplyCall(l1), ApplyCall(l2)>>
          /\ selectionState = [status |-> "pending", key |-> getLocationKey(l2)]
    /\ isSearching = FALSE
    /\ statusBanner = NoBanner
    /\ panelOpen = TRUE
    /\ abortRef = 0
    /\ mounted = TRUE
    /\ curEff = 2
    /\ disposed = {1}
    /\ timers = {}
    /\ fetches = {}
    /\ aborted = {}
    /\ applyAvailable = TRUE
    /\ cfetches = <<>>
    /\ HlIdle
    /\ debounceRef = 0

\* the two apply calls complete, in either order
NextRace ==
    \/ \E i \in 1..Len(applies), result \in ApplyResults : ApplyResolves(i, result)
    \/ \E i \in 1..Len(applies) : ApplyThrows(i)

SpecRace == InitRace /\ [][NextRace]_vars

\* C37: after a sequence of direct-apply selections with no input change in
\* between, once all apply calls have completed, selectionState is settled
\* with the key of the most recently selected Location, whatever the order
\* in which the calls completed. (Here the most recent selection is the
\* second row of the list.)
C37_SettlesOnMostRecentSelection ==
    (applies = <<>>) =>
        selectionState = [status |-> "settled", key |-> getLocationKey(suggestions[2])]

-----------------------------------------------------------------------------
(* Claims about the address handed to the apply collaborator *)

\* C38: for every Location with a non-empty primary.text, of any type, the
\* address1 handed to the apply collaborator is a non-empty string.
C38_Address1NonEmpty ==
    \A i \in 1..Len(applies) :
        applies[i].place.primary # <<>> =>
            /\ applies[i].address.address1 # Undefined
            /\ applies[i].address.address1 # <<>>

\* C38 witness: the primary text is blank but not empty, so that the trimmed
\* text is empty and address1 falls back to the untrimmed text
C38_Witness ==
    \E i \in 1..Len(applies) :
        /\ applies[i].place.primary # <<>>
        /\ Trim(applies[i].place.primary) = <<>>
        /\ applies[i].address.address1 = applies[i].place.primary

-----------------------------------------------------------------------------
(* Claims about the segments the renderer emits *)

\* C39: the renderer never emits an empty segment for a non-empty text:
\* every segment value has at least one character, except that the empty
\* text yields exactly one empty, unhighlighted segment; the result always
\* has at least one segment.
C39_NoEmptySegment ==
    rendered =>
        /\ Len(segments) >= 1
        /\ text # <<>> => \A i \in 1..Len(segments) : Len(segments[i].value) >= 1
        /\ text = <<>> => segments = <<[value |-> <<>>, isHighlight |-> FALSE]>>

\* C39 witness: a text rendered with a pair that is empty after clamping
\* (its end lies before its start) next to one that is not
C39_Witness ==
    /\ rendered
    /\ Len(text) >= 2
    /\ Len(highlights) = 4
    /\ highlights[2] < highlights[1]
    /\ \E i \in 1..Len(segments) : segments[i].isHighlight
    /\ \E i \in 1..Len(segments) : ~segments[i].isHighlight

-----------------------------------------------------------------------------
(* The selection key and the rows of SuggestionList *)

\* the keys handed to SuggestionList; null is the empty key of the idle state
activeSuggestionKey ==
    IF selectionState.status = "pending" THEN selectionState.key ELSE <<>>
selectedSuggestionKey ==
    IF selectionState.status = "idle" THEN <<>> ELSE selectionState.key

\* SuggestionList: isActive and isSelected of the row of `suggestion`
isActive(suggestion) ==
    selectionState.status = "pending"
    /\ activeSuggestionKey = getLocationKey(suggestion)
isSelected(suggestion) ==
    selectionState.status # "idle"
    /\ selectedSuggestionKey = getLocationKey(suggestion)

\* texts of addresses with and without a hyphen
KeyTexts == {<<"a">>, <<"b">>, <<"a", "-", "b">>, <<"b", "-", "a">>}

\* direct-apply Locations over these texts
KeyLocations ==
    {MkLocation(TypeOther, FALSE, <<>>, p, s) : p \in KeyTexts, s \in KeyTexts}

\* The controller after a search for "abc" returned two Locations that
\* differ in primary.text or in secondary.text
InitKey ==
    /\ inputValue = <<"a", "b", "c">>
    /\ \E l1 \in KeyLocations, l2 \in KeyLocations :
          /\ l1 # l2
          /\ suggestions = <<l1, l2>>
    /\ isSearching = FALSE
    /\ statusBanner = NoBanner
    /\ selectionState = createSelectionState
    /\ panelOpen = TRUE
    /\ abortRef = 0
    /\ mounted = TRUE
    /\ curEff = 2
    /\ disposed = {1}
    /\ timers = {}
    /\ fetches = {}
    /\ aborted = {}
    /\ applyAvailable = TRUE
    /\ cfetches = <<>>
    /\ applies = <<>>
    /\ HlIdle
    /\ debounceRef = 0

\* rows are clicked and the apply calls complete
NextKey ==
    \/ \E i \in 1..Len(suggestions) : HandleSelectSuggestion(suggestions[i])
    \/ \E i \in 1..Len(applies), result \in ApplyResults : ApplyResolves(i, result)
    \/ \E i \in 1..Len(applies) : ApplyThrows(i)

SpecKey == InitKey /\ [][NextKey]_vars

\* the rows of the rendered list that carry a marker
MarkedRows ==
    {i \in 1..Len(suggestions) : isActive(suggestions[i]) \/ isSelected(suggestions[i])}

\* C40: at most one suggestion of the rendered list is marked active
\* (pending) or selected at a time: the selection key built from
\* primary.text and secondary.text is injective, i.e. two Locations that
\* differ in primary.text or in secondary.text never have the same key.
C40_KeyMarksOneRow ==
    /\ Cardinality(MarkedRows) <= 1
    /\ \A i \in MarkedRows : \A j \in 1..Len(suggestions) :
          (\/ suggestions[i].primary # suggestions[j].primary
           \/ suggestions[i].secondary # suggestions[j].secondary)
             => getLocationKey(suggestions[i]) # getLocationKey(suggestions[j])

=============================================================================
